---- MODULE Spec2Model ----
(***************************************************************************)
(* A model of parsec.py, a combinator parsing library.                     *)
(*                                                                         *)
(* Parser objects live in a heap (a sequence of records; an object's       *)
(* identity is its index, None is 0).  The composition operators >>, <<    *)
(* and | are heap transformers that allocate and, inside Parser.add,       *)
(* assign to attributes.  Parser.parse is a function of the heap, the      *)
(* receiver, the input string, the accumulator and the suppress flag.      *)
(*                                                                         *)
(* A Python str is a sequence of one-character strings.  An outcome is a   *)
(* record [result, rest, error, raised]: error is None or the message of   *)
(* a ParseError, raised names the Python exception that left the call (or  *)
(* "Diverges" when the call never returns); raised = "" is a normal        *)
(* return.                                                                 *)
(*                                                                         *)
(* Three specifications share the heap:                                    *)
(*   SpecBuild  composition operators applied to combinators already built *)
(*   Spec       a grammar expression is evaluated, then parse is called    *)
(*   SpecSepBy  SepBy.parse_body, one step of its loop at a time (its      *)
(*              list-valued result is modelled where SepBy is outermost)   *)
(***************************************************************************)
EXTENDS Integers, Sequences, FiniteSets, TLC

VARIABLES heap, root, string, acc, suppress, out, pc,
          named, last, nops,
          result, rest, error, berror, res

vars == <<heap, root, string, acc, suppress, out, pc,
          named, last, nops, result, rest, error, berror, res>>

(***************************************************************************)
(* Bounds                                                                  *)
(***************************************************************************)
MaxLen == 3

MaxOps == 2

MaxLeaves == 2

(***************************************************************************)
(* Python values                                                           *)
(***************************************************************************)
None == 0

NoError == <<>>

Alphabet == {"a", "b", "c"}

RECURSIVE StrsUpTo(_)
StrsUpTo(n) ==
  IF n = 0 THEN {<<>>}
  ELSE LET S == StrsUpTo(n - 1)
       IN  S \cup {Append(s, ch) : s \in {t \in S : Len(t) = n - 1}, ch \in Alphabet}

Strings == StrsUpTo(MaxLen)

Accs == {<<>>, <<"x">>}

Range(f) == {f[i] : i \in DOMAIN f}

\* str.startswith(prefix)
StartsWith(s, prefix) ==
  /\ Len(prefix) <= Len(s)
  /\ SubSeq(s, 1, Len(prefix)) = prefix

\* s[n:]
Slice(s, n) == IF n >= Len(s) THEN <<>> ELSE SubSeq(s, n + 1, Len(s))

\* "".join(chars)
RECURSIVE Join(_)
Join(chars) == IF chars = <<>> THEN <<>> ELSE Head(chars) \o Join(Tail(chars))

\* string[0] if len(string) > 0 else ""
Got(s) == IF Len(s) > 0 THEN <<s[1]>> ELSE <<>>

(***************************************************************************)
(* Objects                                                                 *)
(***************************************************************************)
\* Parser.__init__: next_parser and type start as None
Blank ==
  [cls |-> "Parser", next_parser |-> None, type |-> "None",
   others |-> <<>>, discard |-> <<>>, parser |-> None,
   char |-> <<>>, string |-> <<>>, chars |-> <<>>,
   start |-> None, body |-> None, end |-> None, sep |-> None]

Alloc(h, o) == [heap |-> Append(h, o), ret |-> Len(h) + 1]

Char__init__(h, char) == Alloc(h, [Blank EXCEPT !.cls = "Char", !.char = char])

String__init__(h, s) == Alloc(h, [Blank EXCEPT !.cls = "String", !.string = s])

OneOf__init__(h, chars) == Alloc(h, [Blank EXCEPT !.cls = "OneOf", !.chars = chars])

NoneOf__init__(h, chars) == Alloc(h, [Blank EXCEPT !.cls = "NoneOf", !.chars = chars])

Many__init__(h, parser) == Alloc(h, [Blank EXCEPT !.cls = "Many", !.parser = parser])

Many1__init__(h, parser) == Alloc(h, [Blank EXCEPT !.cls = "Many1", !.parser = parser])

Between__init__(h, start_parser, body_parser, end_parser) ==
  Alloc(h, [Blank EXCEPT !.cls = "Between", !.start = start_parser,
                         !.body = body_parser, !.end = end_parser])

SepBy__init__(h, body_parser, sep_parser) ==
  Alloc(h, [Blank EXCEPT !.cls = "SepBy", !.body = body_parser, !.sep = sep_parser])

\* Chain.__init__: others = [first, other], discard = {0: discard}
Chain__init__(h, first, other, discard) ==
  Alloc(h, [Blank EXCEPT !.cls = "Chain", !.others = <<first, other>>,
                         !.discard = <<discard>>])

(***************************************************************************)
(* copy.deepcopy                                                           *)
(***************************************************************************)
\* the objects an object's attributes refer to
Refs(o) ==
  ({o.next_parser, o.parser, o.start, o.body, o.end, o.sep} \cup Range(o.others))
    \ {None}

RECURSIVE Reach(_, _)
Reach(h, S) ==
  LET T == S \cup UNION {Refs(h[i]) : i \in S}
  IN  IF T = S THEN S ELSE Reach(h, T)

\* every object reachable from self is copied once (sharing inside the copy
\* is kept) and the copies refer to each other, never to the originals
deepcopy(h, self) ==
  LET R      == Reach(h, {self})
      new(i) == Len(h) + Cardinality({j \in R : j <= i})
      mp(i)  == IF i = None THEN None ELSE new(i)
      cp(o)  == [o EXCEPT !.next_parser = mp(@), !.parser = mp(@),
                          !.start = mp(@), !.body = mp(@), !.end = mp(@),
                          !.sep = mp(@),
                          !.others = [k \in DOMAIN @ |-> mp(@[k])]]
      old(n) == CHOOSE i \in R : new(i) = n
  IN  [heap |-> h \o [k \in 1..Cardinality(R) |-> cp(h[old(Len(h) + k)])],
       ret  |-> new(self)]

(***************************************************************************)
(* Composition operators                                                   *)
(***************************************************************************)
RECURSIVE add(_, _, _, _, _)
RECURSIVE add_inplace(_, _, _, _, _)
\* Parser.add without the copy of self: the link is assigned into the operand
add_inplace(h, self, other, ty, head) ==
  LET c2       == deepcopy(h, other)
      othercpy == c2.ret
      h3       == [c2.heap EXCEPT ![self].type = ty]
  IN  IF h3[self].next_parser # None
      THEN [heap |-> add_inplace(h3, h3[self].next_parser, othercpy, ty, FALSE).heap,
            ret  |-> self]
      ELSE [heap |-> [h3 EXCEPT ![self].next_parser = othercpy],
            ret  |-> self]

\* Parser.add
add(h, self, other, ty, head) ==
  LET c1       == IF head THEN deepcopy(h, self) ELSE [heap |-> h, ret |-> self]
      nself    == c1.ret
      c2       == deepcopy(c1.heap, other)
      othercpy == c2.ret
      h3       == [c2.heap EXCEPT ![nself].type = ty]
  IN  IF h3[nself].next_parser # None
      THEN [heap |-> add(h3, h3[nself].next_parser, othercpy, ty, FALSE).heap,
            ret  |-> nself]
      ELSE [heap |-> [h3 EXCEPT ![nself].next_parser = othercpy],
            ret  |-> nself]

\* Parser.__or__
Parser__or__(h, self, other) == add(h, self, other, "Alternative", TRUE)

\* Parser.__rshift__
Parser__rshift__(h, self, other) == Chain__init__(h, self, other, FALSE)

\* Parser.__lshift__ with the flag of __rshift__
Parser__lshift__keep(h, self, other) == Chain__init__(h, self, other, FALSE)

\* Parser.__lshift__
Parser__lshift__(h, self, other) == Chain__init__(h, self, other, TRUE)

\* Chain.__rshift__
Chain__rshift__(h, self, other) ==
  LET c     == deepcopy(h, self)
      nself == c.ret
  IN  [heap |-> [c.heap EXCEPT ![nself].discard = Append(@, FALSE),
                               ![nself].others  = Append(@, other)],
       ret  |-> nself]

\* Chain.__lshift__
Chain__lshift__(h, self, other) ==
  LET c     == deepcopy(h, self)
      nself == c.ret
  IN  [heap |-> [c.heap EXCEPT ![nself].discard = Append(@, TRUE),
                               ![nself].others  = Append(@, other)],
       ret  |-> nself]

\* self >> other, dispatched on the class of self
Rshift(h, self, other) ==
  IF h[self].cls = "Chain" THEN Chain__rshift__(h, self, other)
  ELSE Parser__rshift__(h, self, other)

\* self << other
Lshift(h, self, other) ==
  IF h[self].cls = "Chain" THEN Chain__lshift__(h, self, other)
  ELSE Parser__lshift__(h, self, other)

\* self | other (no class overrides __or__)
Or(h, self, other) == Parser__or__(h, self, other)

(***************************************************************************)
(* Parsing                                                                 *)
(***************************************************************************)
Ret(r, s, e) == [result |-> r, rest |-> s, error |-> e, raised |-> ""]

Raise(exc) == [result |-> <<>>, rest |-> <<>>, error |-> NoError, raised |-> exc]

\* `raise error`: a ParseError does not derive from BaseException, so the
\* statement raises TypeError
RaiseError == Raise("TypeError")

RECURSIVE parse(_, _, _, _, _)
RECURSIVE parse_body(_, _, _, _)
RECURSIVE ChainLoop(_, _, _, _, _, _, _)
RECURSIVE ManyLoop(_, _, _, _)

\* Char.parse_body
Char_parse_body(o, s, a) ==
  IF StartsWith(s, o.char)
  THEN Ret(a \o o.char, Slice(s, 1), NoError)
  ELSE Ret(a, s, <<"expected">> \o o.char \o <<"got">> \o Got(s))

\* String.parse_body
String_parse_body(o, s, a) ==
  IF StartsWith(s, o.string)
  THEN Ret(a \o o.string, Slice(s, Len(o.string)), NoError)
  ELSE Ret(a, s, <<"Cannot parse empty string">>)

\* OneOf.parse_body
OneOf_parse_body(o, s, a) ==
  IF \E i \in DOMAIN o.chars : StartsWith(s, o.chars[i])
  THEN IF s = <<>> THEN Raise("IndexError")
       ELSE Ret(a \o <<s[1]>>, Slice(s, 1), NoError)
  ELSE Ret(a, s, <<"expected one of">> \o Join(o.chars) \o <<"got">> \o Got(s))

\* NoneOf.parse_body
NoneOf_parse_body(o, s, a) ==
  IF ~ \E i \in DOMAIN o.chars : StartsWith(s, o.chars[i])
  THEN IF s = <<>> THEN Raise("IndexError")
       ELSE Ret(a \o <<s[1]>>, Slice(s, 1), NoError)
  ELSE Ret(a, s, <<"expected none of">> \o Join(o.chars) \o <<"got">> \o Got(s))

\* Parser.send_rest
send_rest(h, self, r, s, e, sup) ==
  IF h[self].next_parser # None
  THEN IF h[self].type = "Alternative"
       THEN IF e # NoError
            THEN parse(h, h[self].next_parser, s, r, sup)
            ELSE Ret(r, s, e)
       ELSE IF e # NoError /\ ~sup
            THEN RaiseError
            ELSE parse(h, h[self].next_parser, s, r, sup)
  ELSE IF e # NoError /\ ~sup
       THEN RaiseError
       ELSE Ret(r, s, e)

\* Parser.parse once parse_body has returned b (no_send is never passed)
parse_return(h, self, b, sup) ==
  IF b.raised # "" THEN b
  ELSE send_rest(h, self, b.result, b.rest, b.error, sup)

\* Parser.parse
parse(h, self, s, a, sup) == parse_return(h, self, parse_body(h, self, s, a), sup)

\* the body of the for loop of Chain.parse_body after step k has returned p
ChainStep(h, self, k, prevacc, orig, p) ==
  IF p.raised # "" THEN p
  ELSE IF p.error # NoError THEN Ret(<<>>, orig, p.error)
  ELSE ChainLoop(h, self, k + 1, p.result,
                 IF k <= Len(h[self].discard) /\ ~h[self].discard[k]
                 THEN p.result ELSE prevacc,
                 p.rest, orig)

\* the for loop of Chain.parse_body, at step k (Python's i = k - 1)
ChainLoop(h, self, k, r0, prevacc, s0, orig) ==
  IF k > Len(h[self].others) THEN Ret(r0, s0, NoError)
  ELSE ChainStep(h, self, k, prevacc, orig,
                 parse(h, h[self].others[k], s0,
                       IF k > 1 /\ h[self].discard[k - 1] THEN prevacc ELSE r0,
                       TRUE))

\* Chain.parse_body
Chain_parse_body(h, self, s, a) == ChainLoop(h, self, 1, <<>>, a, s, s)

\* the body of the while loop after the attempt on s0 has returned p.  A
\* successful attempt that returns its input unshortened repeats for ever.
ManyStep(h, parser, r0, s0, p) ==
  IF p.raised # "" THEN p
  ELSE IF p.error # NoError THEN Ret(r0, p.rest, NoError)
  ELSE IF Len(p.rest) >= Len(s0) THEN Raise("Diverges")
  ELSE ManyLoop(h, parser, r0 \o p.result, p.rest)

\* the while loop of Many.parse_body and of Many1.parse_body
ManyLoop(h, parser, r0, s0) ==
  ManyStep(h, parser, r0, s0, parse(h, parser, s0, <<>>, TRUE))

\* Many.parse_body
Many_parse_body(h, self, s, a) == ManyLoop(h, h[self].parser, a, s)

\* Many1.parse_body after the first attempt has returned p
Many1First(h, self, a, p) ==
  IF p.raised # "" THEN p
  ELSE IF p.error # NoError THEN Ret(a, p.rest, p.error)
  ELSE ManyLoop(h, h[self].parser, a \o p.result, p.rest)

\* Many1.parse_body
Many1_parse_body(h, self, s, a) ==
  Many1First(h, self, a, parse(h, h[self].parser, s, a, TRUE))

\* Between.parse_body after self.end(rest) has returned e
BetweenReturn(p, e) ==
  IF e.raised # "" THEN e ELSE Ret(p.result, e.rest, e.error)

\* Between.parse_body after prefix.parse has returned p; self.end(rest) is
\* self.end.parse(rest), suppress at its default False
BetweenEnd(h, self, s, a, p) ==
  IF p.raised # "" THEN p
  ELSE IF p.error # NoError THEN Ret(a, s, p.error)
  ELSE BetweenReturn(p, parse(h, h[self].end, p.rest, <<>>, FALSE))

\* Between.parse_body once prefix = self.start << self.body is built;
\* prefix.parse(string, acc=acc) leaves suppress at its default False
BetweenPrefix(h, self, s, a, prefix) ==
  BetweenEnd(h, self, s, a, parse(prefix.heap, prefix.ret, s, a, FALSE))

\* Between.parse_body
Between_parse_body(h, self, s, a) ==
  BetweenPrefix(h, self, s, a, Lshift(h, h[self].start, h[self].body))

parse_body(h, self, s, a) ==
  CASE h[self].cls = "Char"    -> Char_parse_body(h[self], s, a)
    [] h[self].cls = "String"  -> String_parse_body(h[self], s, a)
    [] h[self].cls = "OneOf"   -> OneOf_parse_body(h[self], s, a)
    [] h[self].cls = "NoneOf"  -> NoneOf_parse_body(h[self], s, a)
    [] h[self].cls = "Chain"   -> Chain_parse_body(h, self, s, a)
    [] h[self].cls = "Many"    -> Many_parse_body(h, self, s, a)
    [] h[self].cls = "Many1"   -> Many1_parse_body(h, self, s, a)
    [] h[self].cls = "Between" -> Between_parse_body(h, self, s, a)

(***************************************************************************)
(* Grammar expressions, evaluated as Python evaluates them: operands left  *)
(* to right, then the constructor or operator.                             *)
(***************************************************************************)
Char(c) == [op |-> "Char", arg |-> c]

String(s) == [op |-> "String", arg |-> s]

OneOf(cs) == [op |-> "OneOf", arg |-> cs]

NoneOf(cs) == [op |-> "NoneOf", arg |-> cs]

Many(e) == [op |-> "Many", arg |-> e]

Many1(e) == [op |-> "Many1", arg |-> e]

Between(s, b, e) == [op |-> "Between", start |-> s, body |-> b, end |-> e]

SepBy(b, s) == [op |-> "SepBy", l |-> b, r |-> s]

Bin(ops, L, R) == {[op |-> o, l |-> x, r |-> y] : o \in ops, x \in L, y \in R}

RECURSIVE Build(_, _)
Build(h, e) ==
  CASE e.op = "Char"    -> Char__init__(h, e.arg)
    [] e.op = "String"  -> String__init__(h, e.arg)
    [] e.op = "OneOf"   -> OneOf__init__(h, e.arg)
    [] e.op = "NoneOf"  -> NoneOf__init__(h, e.arg)
    [] e.op = "Many"    -> LET x == Build(h, e.arg) IN Many__init__(x.heap, x.ret)
    [] e.op = "Many1"   -> LET x == Build(h, e.arg) IN Many1__init__(x.heap, x.ret)
    [] e.op = "Between" -> LET x == Build(h, e.start)
                               y == Build(x.heap, e.body)
                               z == Build(y.heap, e.end)
                           IN  Between__init__(z.heap, x.ret, y.ret, z.ret)
    [] e.op = "SepBy"   -> LET x == Build(h, e.l)
                               y == Build(x.heap, e.r)
                           IN  SepBy__init__(y.heap, x.ret, y.ret)
    [] e.op = ">>"      -> LET x == Build(h, e.l)
                               y == Build(x.heap, e.r)
                           IN  Rshift(y.heap, x.ret, y.ret)
    [] e.op = "<<"      -> LET x == Build(h, e.l)
                               y == Build(x.heap, e.r)
                           IN  Lshift(y.heap, x.ret, y.ret)
    [] e.op = "|"       -> LET x == Build(h, e.l)
                               y == Build(x.heap, e.r)
                           IN  Or(y.heap, x.ret, y.ret)

Ops == {">>", "<<", "|"}

Lits == {Char(<<"a">>), Char(<<"b">>)}

Prims == Lits \cup {String(<<"a", "b">>), OneOf(<<<<"a">>, <<"b">>>>),
                    NoneOf(<<<<"c">>>>)}

Pairs == Bin(Ops, Lits, Lits)

Reps == {Many(e) : e \in Prims \cup Pairs} \cup {Many1(e) : e \in Prims \cup Pairs}

RepLits == {Many(e) : e \in Lits} \cup {Many1(e) : e \in Lits}

Nested == Bin(Ops, Pairs \cup RepLits, Lits) \cup Bin(Ops, Lits, Pairs \cup RepLits)

Triples == Bin(Ops, Bin(Ops, Bin(Ops, {Char(<<"a">>)}, {Char(<<"b">>)}), Lits), Lits)

Betweens == {Between(s, b, e) : s \in Lits \cup {[op |-> ">>", l |-> Char(<<"a">>), r |-> Char(<<"b">>)]},
                                b \in Lits \cup {Many(Char(<<"a">>))},
                                e \in Lits}

Loops == {Many(Many(Char(<<"a">>))), Many1(Many(Char(<<"a">>)))}

Exprs == Prims \cup Bin(Ops, Prims, Prims) \cup Reps \cup Nested \cup Triples
           \cup Betweens \cup Loops

\* separators consume a character whenever they succeed, so the loop of
\* SepBy.parse_body ends on every input
SepByExprs == {SepBy(b, s) : b \in Prims \cup RepLits \cup {[op |-> ">>", l |-> Char(<<"a">>), r |-> Char(<<"a">>)]},
                             s \in {Char(<<"b">>), String(<<"b", "c">>), OneOf(<<<<"b">>, <<"c">>>>)}}

(***************************************************************************)
(* Spec: evaluate a grammar expression, then call parse on the value       *)
(***************************************************************************)
NoOutcome == Ret(<<>>, <<>>, NoError)

NoOp == [op |-> "none", self |-> None, other |-> None, ret |-> None]

Idle ==
  /\ heap = <<>> /\ root = None /\ string = <<>> /\ acc = <<>>
  /\ suppress = FALSE /\ out = NoOutcome /\ pc = "start"
  /\ named = <<>> /\ last = NoOp /\ nops = 0
  /\ result = <<>> /\ rest = <<>> /\ error = NoError /\ berror = NoError
  /\ res = <<>>

Init == Idle

\* the operands of the outermost operator of e, as Build evaluates them
Operands(e) ==
  IF e.op \in Ops
  THEN LET x == Build(<<>>, e.l)
           y == Build(x.heap, e.r)
       IN  [self |-> x.ret, other |-> y.ret]
  ELSE [self |-> None, other |-> None]

Construct ==
  /\ pc = "start"
  /\ \E e \in Exprs :
       /\ heap' = Build(<<>>, e).heap
       /\ root' = Build(<<>>, e).ret
       /\ last' = [op |-> e.op, self |-> Operands(e).self,
                   other |-> Operands(e).other, ret |-> Build(<<>>, e).ret]
  /\ pc' = "built"
  /\ UNCHANGED <<string, acc, suppress, out, named, nops, result, rest,
                 error, berror, res>>

\* root.parse(s, a, sup)
Invoke ==
  /\ pc = "built"
  /\ \E s \in Strings, a \in Accs, sup \in BOOLEAN :
       /\ string' = s /\ acc' = a /\ suppress' = sup
       /\ out' = parse(heap, root, s, a, sup)
  /\ pc' = "done"
  /\ UNCHANGED <<heap, root, named, last, nops, result, rest, error, berror,
                 res>>

Next == Construct \/ Invoke

Spec == Init /\ [][Next]_vars

(***************************************************************************)
(* SpecBuild: a program that builds combinators and keeps every one of     *)
(* them in a variable (named), so each can be an operand again             *)
(***************************************************************************)
LeafChars == {<<"a">>, <<"b">>}

parseUnused == <<root, string, acc, suppress, out, pc, result, rest, error,
                 berror, res>>

\* x = Char(c)
NewChar ==
  /\ Len(named) - nops < MaxLeaves
  /\ \E c \in LeafChars :
       LET b == Char__init__(heap, c)
       IN  /\ heap' = b.heap
           /\ named' = Append(named, b.ret)
           /\ last' = [op |-> "Char", self |-> None, other |-> None, ret |-> b.ret]
  /\ UNCHANGED nops
  /\ UNCHANGED parseUnused

Compose(o, b, self, other) ==
  /\ heap' = b.heap
  /\ named' = Append(named, b.ret)
  /\ last' = [op |-> o, self |-> self, other |-> other, ret |-> b.ret]
  /\ nops' = nops + 1
  /\ UNCHANGED parseUnused

\* z = x >> y
DoRshift ==
  /\ nops < MaxOps
  /\ \E x \in Range(named), y \in Range(named) :
       Compose(">>", Rshift(heap, x, y), x, y)

\* z = x << y
DoLshift ==
  /\ nops < MaxOps
  /\ \E x \in Range(named), y \in Range(named) :
       Compose("<<", Lshift(heap, x, y), x, y)

\* z = x | y
DoOr ==
  /\ nops < MaxOps
  /\ \E x \in Range(named), y \in Range(named) :
       Compose("|", Or(heap, x, y), x, y)

NextBuild == NewChar \/ DoRshift \/ DoLshift \/ DoOr

SpecBuild == Init /\ [][NextBuild]_vars

(***************************************************************************)
(* SpecSepBy: SepBy(body, sep).parse(s, suppress=...), the loop of         *)
(* SepBy.parse_body taken one statement at a time                          *)
(***************************************************************************)
buildUnused == <<named, last, nops>>

ConstructSepBy ==
  /\ pc = "start"
  /\ \E e \in SepByExprs :
       LET b == Build(<<>>, e)
       IN  heap' = b.heap /\ root' = b.ret
  /\ pc' = "built"
  /\ UNCHANGED <<string, acc, suppress, out, result, rest, error, berror, res>>
  /\ UNCHANGED buildUnused

\* entry of parse_body: result, rest, error = [], string, None
SepByCall ==
  /\ pc = "built"
  /\ \E s \in Strings, sup \in BOOLEAN :
       /\ string' = s /\ suppress' = sup
       /\ rest' = s
  /\ result' = <<>> /\ error' = NoError
  /\ pc' = "while"
  /\ UNCHANGED <<heap, root, acc, out, berror, res>>
  /\ UNCHANGED buildUnused

\* while not error:
SepByWhile ==
  /\ pc = "while"
  /\ pc' = IF error = NoError THEN "body" ELSE "return"
  /\ UNCHANGED <<heap, root, string, acc, suppress, out, result, rest, error,
                 berror, res>>
  /\ UNCHANGED buildUnused

\* res, rest, berror = self.body.parse(rest, suppress=True)
SepByBody ==
  /\ pc = "body"
  /\ \E p \in {parse(heap, heap[root].body, rest, <<>>, TRUE)} :
       /\ pc' = IF p.raised # "" THEN "raised" ELSE "sep"
       /\ out' = IF p.raised # "" THEN p ELSE out
       /\ res' = IF p.raised # "" THEN res ELSE p.result
       /\ rest' = IF p.raised # "" THEN rest ELSE p.rest
       /\ berror' = IF p.raised # "" THEN berror ELSE p.error
  /\ UNCHANGED <<heap, root, string, acc, suppress, result, error>>
  /\ UNCHANGED buildUnused

\* _, rest, error = self.sep.parse(rest, suppress=True)
SepBySep ==
  /\ pc = "sep"
  /\ \E p \in {parse(heap, heap[root].sep, rest, <<>>, TRUE)} :
       /\ pc' = IF p.raised # "" THEN "raised" ELSE "append"
       /\ out' = IF p.raised # "" THEN p ELSE out
       /\ rest' = IF p.raised # "" THEN rest ELSE p.rest
       /\ error' = IF p.raised # "" THEN error ELSE p.error
  /\ UNCHANGED <<heap, root, string, acc, suppress, result, berror, res>>
  /\ UNCHANGED buildUnused

\* result.append(res)
SepByAppend ==
  /\ pc = "append"
  /\ result' = Append(result, res)
  /\ pc' = "while"
  /\ UNCHANGED <<heap, root, string, acc, suppress, out, rest, error, berror, res>>
  /\ UNCHANGED buildUnused

\* return result, rest, berror, handed to send_rest by Parser.parse
SepByReturn ==
  /\ pc = "return"
  /\ out' = send_rest(heap, root, result, rest, berror, suppress)
  /\ pc' = "done"
  /\ UNCHANGED <<heap, root, string, acc, suppress, result, rest, error, berror,
                 res>>
  /\ UNCHANGED buildUnused

NextSepBy ==
  \/ ConstructSepBy \/ SepByCall \/ SepByWhile \/ SepByBody \/ SepBySep
  \/ SepByAppend \/ SepByReturn

SpecSepBy == Init /\ [][NextSepBy]_vars

(***************************************************************************)
(* Claims                                                                  *)
(***************************************************************************)
NoLink(i) == heap[i].next_parser = None

Returned == out.raised = ""

Succeeded(o) == o.raised = "" /\ o.error = NoError

\* (Char(a) << Char(b)).parse(input) has returned, input begins with a b
C1Case ==
  /\ pc = "done" /\ acc = <<>>
  /\ last.op = "<<" /\ NoLink(root)
  /\ heap[last.self].cls = "Char" /\ NoLink(last.self)
  /\ heap[last.other].cls = "Char" /\ NoLink(last.other)
  /\ StartsWith(string, heap[last.self].char \o heap[last.other].char)

\* C1 as stated: (Char(a) << Char(b)).parse(input), input beginning with a
\* then b, returns result a alone, the input without its first two characters
\* and no error.
C1_DiscardKeepsLeft ==
  C1Case => out = Ret(heap[last.self].char, Slice(string, 2), NoError)

\* C1 as amended: (Char(a) << Char(b)).parse(input), input beginning with a
\* then b, returns result b alone (a is consumed but excluded), the input
\* without its first two characters and no error.
C1_DiscardKeepsRight ==
  C1Case => out = Ret(heap[last.other].char, Slice(string, 2), NoError)

C1_Witness ==
  /\ C1Case
  /\ string = <<"a", "b", "c">>
  /\ out = Ret(<<"b">>, <<"c">>, NoError)

\* the alternatives P1 .. Pn linked from i, in append order
RECURSIVE AltChain(_, _)
AltChain(h, i) ==
  IF h[i].next_parser = None THEN <<i>>
  ELSE <<i>> \o AltChain(h, h[i].next_parser)

\* C2: a chain of alternatives invoked with suppression on (s, acc) returns
\* what the first alternative that succeeds on (s, acc) returns on the
\* original s and acc; if every alternative fails it returns the failure of
\* the last one with remaining input s.
C2_AlternationResolution ==
  LET alts     == AltChain(heap, root)
      alone(k) == parse_body(heap, alts[k], string, acc)
      ok       == {k \in DOMAIN alts : alone(k).error = NoError}
      first    == CHOOSE k \in ok : \A j \in ok : k <= j
  IN  (/\ pc = "done" /\ suppress
       /\ ~NoLink(root) /\ heap[root].type = "Alternative"
       /\ \A k \in DOMAIN alts : alone(k).raised = "")
      => IF ok # {}
         THEN out = alone(first)
         ELSE /\ Returned
              /\ out.error = alone(Len(alts)).error
              /\ out.rest = string

\* a grammar of Char/String literals combined with >> only, in any grouping
RECURSIVE KeepOnly(_, _)
KeepOnly(h, i) ==
  /\ h[i].next_parser = None
  /\ \/ h[i].cls \in {"Char", "String"}
     \/ /\ h[i].cls = "Chain"
        /\ \A k \in DOMAIN h[i].discard : ~h[i].discard[k]
        /\ \A k \in DOMAIN h[i].others : KeepOnly(h, h[i].others[k])

\* C3: for a grammar of literals combined with >> only, flat or nested, a
\* successful top-level parse returns a result and a remaining input whose
\* concatenation is the input.
C3_RoundTrip ==
  (/\ pc = "done" /\ acc = <<>>
   /\ heap[root].cls = "Chain" /\ KeepOnly(heap, root)
   /\ Succeeded(out))
  => out.result \o out.rest = string

\* a parser that consumes at least one character whenever it succeeds
RECURSIVE Consuming(_, _)
Consuming(h, i) ==
  /\ \/ h[i].cls = "Char" /\ Len(h[i].char) > 0
     \/ h[i].cls = "String" /\ Len(h[i].string) > 0
     \/ h[i].cls \in {"OneOf", "NoneOf"}
     \/ /\ h[i].cls = "Chain"
        /\ \A k \in DOMAIN h[i].others : Consuming(h, h[i].others[k])
  /\ h[i].next_parser # None => Consuming(h, h[i].next_parser)

\* C4: Many(sub) and Many1(sub) over a sub-parser that consumes at least one
\* character whenever it succeeds return an outcome on every input, the empty
\* one included, and the remaining input is no longer than the input.
C4_RepetitionTerminates ==
  (/\ pc = "done" /\ suppress
   /\ heap[root].cls \in {"Many", "Many1"} /\ NoLink(root)
   /\ Consuming(heap, heap[root].parser))
  => Returned /\ Len(out.rest) <= Len(string)

\* C5: if p succeeds at the start of s, Many1(p) returns on (s, acc) exactly
\* what Many(p) returns on (s, acc); if p fails there, Many1(p) fails with
\* p's failure.
C5_Many1IsMany ==
  LET first == parse(heap, heap[root].parser, string, acc, TRUE)
  IN  (/\ pc = "done" /\ suppress
       /\ heap[root].cls = "Many1" /\ NoLink(root)
       /\ first.raised = "")
      => IF first.error = NoError
         THEN out = Many_parse_body(heap, root, string, acc)
         ELSE Returned /\ out.error = first.error

\* C7: parse invoked with suppress = true returns an outcome triple and never
\* raises, whichever sub-parser fails.
C7_SuppressedNeverRaises ==
  (pc = "done" /\ suppress) => out.raised \notin {"TypeError", "IndexError"}

\* C10: the combinator returned by X >> D or X << D is a Chain whose own
\* alternative link is empty, so it succeeds on an input only if X matched
\* and D matched directly after it.
C10_SequencingCarriesNoLink ==
  LET x == parse(heap, last.self, string, <<>>, TRUE)
      d == parse(heap, last.other, x.rest, <<>>, TRUE)
  IN  (pc = "done" /\ suppress /\ acc = <<>> /\ last.op \in {">>", "<<"})
      => /\ heap[root].cls = "Chain"
         /\ heap[root].next_parser = None
         /\ Succeeded(out) => Succeeded(x) /\ Succeeded(d) /\ out.rest = d.rest

\* C6: a composition operation leaves every combinator that existed before
\* it as it was: same sub-parser list, same discard flags, same alternative
\* link and link type.  Only new objects are added.
C6_CopyOnCombine ==
  [][/\ Len(heap') >= Len(heap)
     /\ \A i \in 1..Len(heap) : heap'[i] = heap[i]]_vars

\* x | y has just been evaluated for an x that already carried an
\* alternative: the result has two links, x still has one
C6_Witness ==
  /\ last.op = "|"
  /\ heap[last.self].next_parser # None
  /\ heap[heap[last.self].next_parser].next_parser = None
  /\ heap[last.ret].next_parser # None
  /\ heap[heap[last.ret].next_parser].next_parser # None

\* C8: a suppressed parse that returns an error returns the input it was
\* given as the remaining input.
C8_FailureConsumesNothing ==
  (pc = "done" /\ suppress /\ Returned /\ out.error # NoError)
  => out.rest = string

\* C9: the loop of SepBy.parse_body makes no further body attempt after an
\* iteration whose body attempt failed.
C9_SepByStopsAtFirstFailure ==
  pc = "body" => berror = NoError

====
